---- MODULE Spec2Model ----
(***************************************************************************)
(* Shopping cart UI (shoppingcart/ui/main.go) and the session-scoped cart  *)
(* actor it drives.  The UI process owns one session identifier, serves    *)
(* HTTP requests concurrently, and talks to the cart workflow through      *)
(* update-with-start (add, remove, list) and a checkout signal.            *)
(*                                                                         *)
(* The cart workflow itself (package shoppingcart) is modelled from the    *)
(* written specification: a serial command queue per workflow run, with    *)
(* the add / remove / list / checkout semantics of section 4.1.            *)
(***************************************************************************)
EXTENDS Integers, Sequences, FiniteSets, TLC

\* ---------------------------------------------------------------- bounds
\* net/http serves each request in a goroutine of its own, so requests may be
\* in flight together.  The process receives up to MaxBurst requests that
\* overlap in any way, or up to MaxRequests requests that are served one
\* after the other.
MaxBurst == 2
MaxRequests == 3

\* ------------------------------------------------------------- constants
\* Keys of the item catalogue that requests may name (a subset of the map).
itemCosts == {"apple", "banana"}
\* Values uuid.New() may yield: "session-" + uuid.
SessionIds == {"session-1", "session-2"}
\* Values of the "type" query parameter ("bogus" stands for any other string).
ActionTypes == {"add", "remove", "list", "checkout", "bogus"}

Requests == 1..(IF MaxBurst > MaxRequests THEN MaxBurst ELSE MaxRequests)

VARIABLES
    sessionId,   \* the package-level session identifier
    alive,       \* FALSE once log.Fatalln has ended the process
    exitCause,   \* why the process ended ("none" while alive)
    received,    \* number of HTTP requests received so far
    overlapped,  \* some request arrived while another was in flight
    req,         \* per request: position and locals of its handler
    result,      \* per request: outcome of its outstanding update
    workflows,   \* per workflow ID: the sequence of runs, oldest first
    nextSeq      \* per workflow ID: ticket of the next accepted submission

vars == <<sessionId, alive, exitCause, received, overlapped, req, result, workflows,
         nextSeq>>

\* A map with no keys (CartState{Items: make(map[string]int)}).
EmptyMap == [k \in {} |-> 0]

\* Variant: a variable that is not fresh, its map holding keys at quantity 0.
ZeroCartState_Stale == [k \in itemCosts |-> 0]
\* The zero variable handed to updateHandle.Get.
ZeroCartState == EmptyMap

\* Variants: the other two conflict policies the server knows.
WorkflowIDConflictPolicy_Fail == "FAIL"
WorkflowIDConflictPolicy_Terminate == "TERMINATE_EXISTING"
\* StartWorkflowOptions.WorkflowIDConflictPolicy.
WorkflowIDConflictPolicy == "USE_EXISTING"

\* Variant: a closed workflow's ID may not be used again.
WorkflowIDReusePolicy_Reject == "REJECT_DUPLICATE"
\* StartWorkflowOptions.WorkflowIDReusePolicy is left unset: the default.
WorkflowIDReusePolicy == "ALLOW_DUPLICATE"

\* Variant: the result is never decoded, the variable stays as passed in.
Get_Skipped(zero, payload) == zero
\* updateHandle.Get(ctx, &cartState): decodes the update result into the
\* variable passed in; keys already in the variable's map are kept unless
\* the result overwrites them.
Get(zero, payload) ==
    [k \in DOMAIN zero \cup DOMAIN payload |->
        IF k \in DOMAIN payload THEN payload[k] ELSE zero[k]]

\* ------------------------------------------------ cart actor (section 4.1)
\* add(itemID): increment, inserting at 1.
AddItem(items, x) ==
    [k \in DOMAIN items \cup {x} |->
        IF k = x THEN (IF x \in DOMAIN items THEN items[x] + 1 ELSE 1)
        ELSE items[k]]

\* remove(itemID): decrement if present, delete the key at 0.
RemoveItem(items, x) ==
    IF x \notin DOMAIN items THEN items
    ELSE IF items[x] - 1 <= 0 THEN [k \in DOMAIN items \ {x} |-> items[k]]
    ELSE [items EXCEPT ![x] = items[x] - 1]

\* The update handler of the actor: the Cart State after one command.
ApplyUpdate(items, name, x) ==
    CASE name = "add" -> AddItem(items, x)
      [] name = "remove" -> RemoveItem(items, x)
      [] OTHER -> items

\* A new Active actor with empty Cart State.
NewRun == [status |-> "Running", items |-> EmptyMap, queue |-> <<>>, applied |-> <<>>]

NoResult == [state |-> "none", value |-> EmptyMap]
\* A request not yet received.  path, actionType and itemID are the request's
\* URL.  cartState is what its last returned updateWithStartCart call gave, and
\* gotSeq the ticket of that call (0: none returned yet).  seq and run are the
\* ticket and run of its last submission, late tells whether that submission
\* found the session's actor CheckedOut; first and firstRun are the ticket and
\* run of the command actionHandler submitted.  sent lists the calls the
\* handler has made that the server accepted, in order.
NewReq == [pc |-> "new", path |-> "", actionType |-> "", itemID |-> "",
           cartState |-> EmptyMap, gotSeq |-> 0, seq |-> 0, run |-> 0, late |-> FALSE,
           first |-> 0, firstRun |-> 0, sent |-> <<>>]

\* The cart of another browser session, served by another UI process, as the
\* server holds it when this process starts: Active, add("apple") applied,
\* add("banana") and checkout queued.  Its callers are no requests of this
\* process (req 0).
OtherSession ==
    <<[status |-> "Running", items |-> ("apple" :> 1),
       queue |-> <<[kind |-> "update", name |-> "add", itemID |-> "banana", req |-> 0, seq |-> 2],
                   [kind |-> "signal", name |-> "checkout", itemID |-> "", req |-> 0, seq |-> 3]>>,
       applied |-> <<[name |-> "add", itemID |-> "apple", req |-> 0, seq |-> 1,
                      before |-> EmptyMap, after |-> ("apple" :> 1)]>>]>>

\* newSession: "session-" + uuid.New().  Identifiers are opaque, so the one
\* drawn at process start is fixed up to renaming.
newSession == "session-1"

Init ==
    /\ sessionId = newSession
    /\ alive = TRUE
    /\ exitCause = "none"
    /\ received = 0
    /\ overlapped = FALSE
    /\ req = [r \in Requests |-> NewReq]
    /\ result = [r \in Requests |-> NoResult]
    /\ workflows = [id \in SessionIds |-> IF id = newSession THEN <<>> ELSE OtherSession]
    /\ nextSeq = [id \in SessionIds |-> IF id = newSession THEN 1 ELSE OtherSession[1].queue[2].seq + 1]

\* Variant: one workflow ID written into the program, the same for every
\* process and session.
WorkflowID_Shared == "session-2"
\* StartWorkflowOptions.ID and the workflowID argument of SignalWorkflow.
WorkflowID == sessionId

\* log.Fatalln: the process exits, every handler stops where it is.
Fatal(cause) ==
    /\ alive' = FALSE
    /\ exitCause' = cause

\* The run an ID currently resolves to (0: no run was ever started).
Current(id) == Len(workflows[id])
IsRunning(id) == Current(id) > 0 /\ workflows[id][Current(id)].status = "Running"

\* ------------------------------------------------------------ HTTP server
\* Requests whose handler has started and not yet returned.
InFlight == {q \in Requests : req[q].pc \notin {"new", "done"}}

\* net/http hands the next inbound request to a new goroutine.
Arrives(r) ==
    /\ alive
    /\ req[r].pc = "new"
    /\ r = received + 1
    /\ received < MaxBurst \/ (InFlight = {} /\ ~overlapped)
    /\ received' = received + 1
    /\ overlapped' = (overlapped \/ InFlight # {})

\* The itemID values a new request may carry.  Item names are opaque to the
\* handlers, so inputs are enumerated up to renaming: "banana" is named only
\* once an earlier request has named "apple".
ItemChoices(r) ==
    {x \in itemCosts : x = "apple" \/ \E q \in 1..(r - 1) : req[q].itemID = "apple"}

\* Variant: the two arguments in the wrong order.
UpdateArgs_Swapped(actionType, itemID) == <<itemID, actionType>>
\* UpdateOptions.Args: the arguments the update handler receives, in order.
UpdateArgs(actionType, itemID) == <<actionType, itemID>>

\* A message as the run's queue holds it.
Message(kind, args, r, id) ==
    [kind |-> kind, name |-> args[1], itemID |-> args[2], req |-> r, seq |-> nextSeq[id]]

\* A handler's note of a call the server accepted.
Sent(id, m) == [id |-> id, seq |-> m.seq, name |-> m.name, itemID |-> m.itemID]

\* The queue of a run after one more message is admitted.
Admit(run, m) ==
    [run EXCEPT !.queue = Append(@, m)]

\* Updates waiting in a queue when their run closes are rejected.
RejectQueued(queue, res) ==
    [r \in Requests |->
        IF \E i \in 1..Len(queue) : queue[i].kind = "update" /\ queue[i].req = r
        THEN [state |-> "rejected", value |-> EmptyMap]
        ELSE res[r]]

\* workflowClient.UpdateWithStartWorkflow as the server decides it for one
\* workflow ID, atomically: attach to the running run or start a new one.
\* Yields the new directory entry, or the error.
StartOrAttach(id) ==
    IF IsRunning(id) THEN
        CASE WorkflowIDConflictPolicy = "USE_EXISTING" ->
                 [err |-> "none", runs |-> workflows[id], closed |-> <<>>]
          [] WorkflowIDConflictPolicy = "TERMINATE_EXISTING" ->
                 [err |-> "none",
                  runs |-> Append([workflows[id] EXCEPT ![Current(id)].status = "Terminated",
                                                        ![Current(id)].queue = <<>>],
                                  NewRun),
                  closed |-> workflows[id][Current(id)].queue]
          [] OTHER -> [err |-> "AlreadyStarted", runs |-> workflows[id], closed |-> <<>>]
    ELSE IF Current(id) = 0 \/ WorkflowIDReusePolicy = "ALLOW_DUPLICATE" THEN
        [err |-> "none", runs |-> Append(workflows[id], NewRun), closed |-> <<>>]
    ELSE [err |-> "AlreadyStarted", runs |-> workflows[id], closed |-> <<>>]

\* updateWithStartCart, up to the point where the caller blocks: the update
\* (actionType, itemID) is admitted to the run the ID resolves to, or the
\* call fails and log.Fatalln ends the process.  rq is the caller's record.
updateWithStartCart(r, rq, actionType, itemID, waitPc) ==
    LET id == WorkflowID
        sa == StartOrAttach(id)
        n  == Len(sa.runs)
        m  == Message("update", UpdateArgs(actionType, itemID), r, id)
        late == Current(id) > 0 /\ workflows[id][Current(id)].status = "Completed"
    IN  IF sa.err # "none"
        THEN /\ Fatal(sa.err)
             /\ req' = [req EXCEPT ![r] = [rq EXCEPT !.late = late]]
             /\ UNCHANGED <<sessionId, result, workflows, nextSeq>>
        ELSE /\ workflows' = [workflows EXCEPT ![id] =
                                 [sa.runs EXCEPT ![n] = Admit(@, m)]]
             /\ nextSeq' = [nextSeq EXCEPT ![id] = @ + 1]
             /\ result' = [RejectQueued(sa.closed, result) EXCEPT ![r] = NoResult]
             /\ req' = [req EXCEPT ![r] =
                           [rq EXCEPT !.pc = waitPc, !.seq = m.seq, !.run = n, !.late = late,
                                      !.first = IF waitPc = "waitAction" THEN m.seq ELSE @,
                                      !.firstRun = IF waitPc = "waitAction" THEN n ELSE @,
                                     !.sent = Append(@, Sent(id, m))]]
             /\ UNCHANGED <<sessionId, alive, exitCause>>

\* listHandler: the call updateWithStartCart("list", ""), for a request to "/"
\* and for the tail of actionHandler after a checkout.
listHandler(r) ==
    /\ \/ /\ Arrives(r)
          /\ updateWithStartCart(r, [NewReq EXCEPT !.path = "/"], "list", "", "waitList")
       \/ /\ alive
          /\ req[r].pc = "list"
          /\ UNCHANGED <<received, overlapped>>
          /\ updateWithStartCart(r, req[r], "list", "", "waitList")

\* actionHandler, case "add", "remove", "list": the call of updateWithStartCart.
\* The requests enumerated name an item for add and remove and none for list.
ActionUpdate(r) ==
    /\ Arrives(r)
    /\ \E t \in ActionTypes \cap {"add", "remove", "list"}, x \in ItemChoices(r) \cup {""} :
          /\ (t = "list") = (x = "")
          /\ updateWithStartCart(r, [NewReq EXCEPT !.path = "/action", !.actionType = t,
                                                   !.itemID = x],
                                 t, x, "waitAction")

\* Variant: checkout sent like the other commands, as an update through
\* update-with-start whose completion the handler waits for.
ActionCheckout_AsUpdate(r) ==
    /\ Arrives(r)
    /\ updateWithStartCart(r, [NewReq EXCEPT !.path = "/action", !.actionType = "checkout"],
                           "checkout", "", "waitAction")

\* actionHandler, case "checkout": SignalWorkflow on the session's workflow.
\* The signal is accepted only by a running workflow; the call returns once
\* the signal is recorded.
ActionCheckout(r) ==
    /\ Arrives(r)
    /\ LET id == WorkflowID
           m  == Message("signal", <<"checkout", "">>, r, id)
           rq == [NewReq EXCEPT !.path = "/action", !.actionType = "checkout"]
       IN  IF IsRunning(id)
           THEN /\ workflows' = [workflows EXCEPT ![id][Current(id)] = Admit(@, m)]
                /\ nextSeq' = [nextSeq EXCEPT ![id] = @ + 1]
                /\ req' = [req EXCEPT ![r] =
                              [rq EXCEPT !.pc = "list", !.seq = m.seq, !.run = Current(id),
                                         !.first = m.seq, !.firstRun = Current(id),
                                        !.sent = Append(@, Sent(id, m))]]
                /\ UNCHANGED <<sessionId, alive, exitCause, result>>
           ELSE /\ Fatal("NotFound")
                /\ req' = [req EXCEPT ![r] = rq]
                /\ UNCHANGED <<sessionId, result, workflows, nextSeq>>

\* actionHandler, default case.
ActionInvalid(r) ==
    /\ Arrives(r)
    /\ Fatal("InvalidAction")
    /\ \E t \in ActionTypes \ {"add", "remove", "list", "checkout"} :
          req' = [req EXCEPT ![r] = [NewReq EXCEPT !.path = "/action", !.actionType = t]]
    /\ UNCHANGED <<sessionId, result, workflows, nextSeq>>

\* The tail of updateWithStartCart in actionHandler: the blocked call returns
\* with the update's outcome.  An error ends the process; a result is decoded
\* by Get, and unless the action was "list" the handler goes on to listHandler.
ActionReturn(r) ==
    /\ alive
    /\ req[r].pc = "waitAction"
    /\ result[r].state # "none"
    /\ UNCHANGED <<received, overlapped>>
    /\ IF result[r].state = "rejected"
       THEN /\ Fatal("SessionClosed")
            /\ UNCHANGED <<sessionId, req, result, workflows, nextSeq>>
       ELSE LET rq == [req[r] EXCEPT !.cartState = Get(ZeroCartState, result[r].value),
                                     !.gotSeq = req[r].seq]
            IN  IF req[r].actionType = "list"
                THEN /\ req' = [req EXCEPT ![r] = [rq EXCEPT !.pc = "done"]]
                     /\ result' = [result EXCEPT ![r] = NoResult]
                     /\ UNCHANGED <<sessionId, alive, exitCause, workflows, nextSeq>>
                ELSE updateWithStartCart(r, rq, "list", "", "waitList")

\* The tail of updateWithStartCart in listHandler; the response is then written.
ListReturn(r) ==
    /\ alive
    /\ req[r].pc = "waitList"
    /\ result[r].state # "none"
    /\ UNCHANGED <<received, overlapped>>
    /\ IF result[r].state = "rejected"
       THEN /\ Fatal("SessionClosed")
            /\ UNCHANGED <<sessionId, req, result, workflows, nextSeq>>
       ELSE /\ req' = [req EXCEPT ![r].cartState = Get(ZeroCartState, result[r].value),
                                  ![r].gotSeq = req[r].seq, ![r].pc = "done"]
            /\ result' = [result EXCEPT ![r] = NoResult]
            /\ UNCHANGED <<sessionId, alive, exitCause, workflows, nextSeq>>

\* ------------------------------------------------------------- cart actor
\* One entry of a run's history of applied commands.
Applied(m, before, after) ==
    [name |-> m.name, itemID |-> m.itemID, req |-> m.req, seq |-> m.seq,
     before |-> before, after |-> after]

\* The actor takes the next update off its queue, applies it and completes
\* the update with the snapshot.
ActorUpdate(id) ==
    /\ IsRunning(id)
    /\ LET n   == Current(id)
           run == workflows[id][n]
       IN  /\ run.queue # <<>>
           /\ Head(run.queue).kind = "update"
           /\ LET m     == Head(run.queue)
                  after == ApplyUpdate(run.items, m.name, m.itemID)
              IN  /\ workflows' = [workflows EXCEPT ![id][n] =
                         [run EXCEPT !.items = after, !.queue = Tail(run.queue),
                                     !.applied = Append(@, Applied(m, run.items, after))]]
                  /\ result' = IF m.req \in Requests
                                THEN [result EXCEPT ![m.req] = [state |-> "ok", value |-> after]]
                                ELSE result
    /\ UNCHANGED <<sessionId, alive, exitCause, received, overlapped, req, nextSeq>>

\* The actor takes the checkout signal off its queue: the run is CheckedOut
\* and whatever is still queued is turned away.
ActorCheckout(id) ==
    /\ IsRunning(id)
    /\ LET n   == Current(id)
           run == workflows[id][n]
       IN  /\ run.queue # <<>>
           /\ Head(run.queue).kind = "signal"
           /\ workflows' = [workflows EXCEPT ![id][n] =
                  [run EXCEPT !.status = "Completed", !.queue = <<>>,
                              !.applied = Append(@, Applied(Head(run.queue), run.items, run.items))]]
           /\ result' = RejectQueued(Tail(run.queue), result)
    /\ UNCHANGED <<sessionId, alive, exitCause, received, overlapped, req, nextSeq>>

Next ==
    \/ \E r \in Requests : listHandler(r)
    \/ \E r \in Requests : ActionUpdate(r)
    \/ \E r \in Requests : ActionCheckout(r)
    \/ \E r \in Requests : ActionInvalid(r)
    \/ \E r \in Requests : ActionReturn(r)
    \/ \E r \in Requests : ListReturn(r)
    \/ \E id \in SessionIds : ActorUpdate(id)
    \/ \E id \in SessionIds : ActorCheckout(id)

Spec == Init /\ [][Next]_vars

\* ------------------------------------------------------------ properties
\* The runs of a workflow ID, and whether checkout has been applied to one.
RunsOf(id) == 1..Len(workflows[id])
CheckedOut(id, n) == workflows[id][n].status = "Completed"

\* C1: as long as no checkout has been applied for a session identifier, all
\* the calls that address it, however they race, find or create one and the
\* same Cart Actor: at most one actor exists for the identifier, every caller
\* is attached to it, and no caller was turned away because the actor already
\* existed.
C1_ExactlyOneActor ==
    \A id \in SessionIds :
        (\A n \in RunsOf(id) : ~CheckedOut(id, n)) =>
            /\ Len(workflows[id]) <= 1
            /\ exitCause # "AlreadyStarted"
            /\ id = sessionId => \A r \in Requests : req[r].seq # 0 => req[r].run = 1

\* Two first-contact calls raced: both are admitted, to the one actor, before
\* it has applied anything.
C1_Witness ==
    \E id \in SessionIds :
        /\ Len(workflows[id]) = 1
        /\ workflows[id][1].applied = <<>>
        /\ Len(workflows[id][1].queue) = 2
        /\ workflows[id][1].queue[1].req # workflows[id][1].queue[2].req
        /\ \A i \in 1..2 : /\ workflows[id][1].queue[i].kind = "update"
                           /\ req[workflows[id][1].queue[i].req].run = 1

\* Requests 1 and 2 both issued add(a) as the first two commands of the
\* session: the second was submitted while the first call was still blocked.
\* No other request has arrived.
FirstContactAdds(a) ==
    /\ received = 2
    /\ \A r \in {1, 2} : /\ req[r].actionType = "add"
                         /\ req[r].itemID = a
                         /\ req[r].first = r
                         /\ req[r].firstRun = 1
                         /\ req[r].pc \in {"waitList", "done"}

\* C2 as stated: after two concurrent first-contact add(a) calls have
\* returned, the session's snapshot shows quantity 1 for a.
C2_Original ==
    \A a \in itemCosts :
        FirstContactAdds(a) =>
            /\ a \in DOMAIN workflows[sessionId][1].items
            /\ workflows[sessionId][1].items[a] = 1

\* C2 (amended): after two concurrent first-contact add(a) calls have
\* returned, both adds have been applied to the one actor: its Cart State is
\* {a: 2}, and so is the snapshot every one of the two requests ends with.
C2_BothAddsApplied ==
    \A a \in itemCosts :
        FirstContactAdds(a) =>
            /\ workflows[sessionId][1].items = (a :> 2)
            /\ \A r \in {1, 2} : req[r].pc = "done" => req[r].cartState = (a :> 2)

C2_Witness ==
    \E a \in itemCosts :
        /\ FirstContactAdds(a)
        /\ \A r \in {1, 2} : req[r].pc = "done" /\ req[r].cartState = (a :> 2)

\* The last entry of a run's history.
LastApplied(id, n) == workflows[id][n].applied[Len(workflows[id][n].applied)]

\* Ticket of the first command admitted to a run (0: the run is Terminated
\* with nothing applied).
FirstTicket(id, n) ==
    IF workflows[id][n].applied # <<>> THEN workflows[id][n].applied[1].seq
    ELSE IF workflows[id][n].queue # <<>> THEN workflows[id][n].queue[1].seq
    ELSE 0

\* What an empty cart becomes under one command.
OnEmptyCart(name, x) == IF name = "add" THEN (x :> 1) ELSE EmptyMap

C4_Step ==
    \A id \in SessionIds :
        LET old == workflows[id]
            new == workflows'[id]
        IN  /\ Len(new) >= Len(old)
            /\ \A n \in 1..Len(old) : old[n].status = "Completed" => new[n] = old[n]
            /\ nextSeq'[id] # nextSeq[id] =>
                  Len(new) = IF IsRunning(id) THEN Len(old) ELSE Len(old) + 1
            /\ Len(new) > Len(old) =>
                  /\ Len(new) = Len(old) + 1
                  /\ Len(old) = 0 \/ old[Len(old)].status = "Completed"
                  /\ new[Len(new)].status = "Running"
                  /\ new[Len(new)].items = EmptyMap
                  /\ new[Len(new)].applied = <<>>

RECURSIVE Replay(_)
Replay(log) ==
    IF log = <<>> THEN EmptyMap
    ELSE ApplyUpdate(Replay(SubSeq(log, 1, Len(log) - 1)),
                     log[Len(log)].name, log[Len(log)].itemID)

\* The snapshot s is the one for ticket t of request r: t was applied, once,
\* and s is the Cart State after the commands applied up to and including it.
SnapshotOf(id, r, t, s) ==
    \E n \in RunsOf(id) :
        \E k \in 1..Len(workflows[id][n].applied) :
            /\ workflows[id][n].applied[k].seq = t
            /\ workflows[id][n].applied[k].req = r
            /\ s = Replay(SubSeq(workflows[id][n].applied, 1, k))

\* C5: each actor applies its commands one at a time, every command at most
\* once, each starting from the Cart State the previous one left; and every
\* snapshot handed to the caller of add, remove or list is the Cart State
\* after exactly the commands applied up to and including the caller's own.
C5_SerialHistory ==
    /\ \A id \in SessionIds : \A n \in RunsOf(id) :
          LET log == workflows[id][n].applied
          IN  /\ \A k \in 1..Len(log) :
                    /\ log[k].before = IF k = 1 THEN EmptyMap ELSE log[k - 1].after
                    /\ \A j \in 1..Len(log) : log[j].seq = log[k].seq => j = k
              /\ workflows[id][n].items = Replay(log)
    /\ \A r \in Requests :
          /\ req[r].gotSeq # 0 =>
                SnapshotOf(sessionId, r, req[r].gotSeq, req[r].cartState)
          /\ result[r].state = "ok" =>
                SnapshotOf(sessionId, r, req[r].seq, result[r].value)

\* Two requests in flight at once hold different non-empty snapshots taken
\* at two points of the same actor's history.
C5_Witness ==
    \E r1, r2 \in Requests :
        /\ r1 # r2
        /\ req[r1].pc = "waitList" /\ req[r2].pc = "waitList"
        /\ req[r1].gotSeq # 0 /\ req[r2].gotSeq # 0
        /\ req[r1].firstRun = req[r2].firstRun
        /\ req[r1].cartState # EmptyMap /\ req[r2].cartState # EmptyMap
        /\ req[r1].cartState # req[r2].cartState

\* C6: tickets are handed out in the order of submission, and each actor
\* applies commands in ticket order: within a run, from one run to the next,
\* and never ahead of a command still queued.  A command submitted after an
\* acknowledged checkout is applied only once the actor that checkout went to
\* is CheckedOut, and then by a later actor.
C6_ApplicationOrder ==
    \A id \in SessionIds :
        /\ \A n \in RunsOf(id) :
              LET log == workflows[id][n].applied
                  q   == workflows[id][n].queue
              IN  /\ \A j, k \in 1..Len(log) : j < k => log[j].seq < log[k].seq
                  /\ \A j, k \in 1..Len(q) : j < k => q[j].seq < q[k].seq
                  /\ \A j \in 1..Len(log), k \in 1..Len(q) : log[j].seq < q[k].seq
                  /\ \A m \in RunsOf(id) : m < n =>
                        \A j \in 1..Len(workflows[id][m].applied), k \in 1..Len(log) :
                            workflows[id][m].applied[j].seq < log[k].seq
        /\ id = sessionId =>
              \A c \in Requests :
                  (req[c].actionType = "checkout" /\ req[c].first # 0) =>
                      \A n \in RunsOf(id) : \A k \in 1..Len(workflows[id][n].applied) :
                          workflows[id][n].applied[k].seq > req[c].first =>
                              /\ n > req[c].firstRun
                              /\ CheckedOut(id, req[c].firstRun)

\* The list that follows a checkout in the same request was applied, after
\* that checkout, by the next actor.
C6_Witness ==
    \E c \in Requests :
        /\ req[c].actionType = "checkout"
        /\ req[c].first # 0
        /\ req[c].seq > req[c].first
        /\ workflows[sessionId][req[c].firstRun].applied # <<>>
        /\ LastApplied(sessionId, req[c].firstRun).seq = req[c].first
        /\ req[c].run = req[c].firstRun + 1
        /\ \E k \in 1..Len(workflows[sessionId][req[c].run].applied) :
              workflows[sessionId][req[c].run].applied[k].seq = req[c].seq

\* Every quantity in the map is at least 1.
Positive(m) == \A k \in DOMAIN m : m[k] >= 1

\* C7: every quantity is at least 1 in every Cart State, in every snapshot
\* an actor completes an update with, and in every snapshot a caller holds.
C7_PositiveQuantities ==
    /\ \A id \in SessionIds : \A n \in RunsOf(id) :
          /\ Positive(workflows[id][n].items)
          /\ \A k \in 1..Len(workflows[id][n].applied) :
                /\ Positive(workflows[id][n].applied[k].before)
                /\ Positive(workflows[id][n].applied[k].after)
    /\ \A r \in Requests : Positive(req[r].cartState) /\ Positive(result[r].value)

\* A remove took the last unit of an item: the key is gone from the Cart
\* State and from the snapshot the caller got.
C7_Witness ==
    \E r \in Requests : \E n \in RunsOf(sessionId) :
        \E k \in 1..Len(workflows[sessionId][n].applied) :
            LET e == workflows[sessionId][n].applied[k]
            IN  /\ e.name = "remove" /\ e.req = r
                /\ e.itemID \in DOMAIN e.before
                /\ e.before[e.itemID] = 1
                /\ e.itemID \notin DOMAIN e.after
                /\ req[r].gotSeq = e.seq
                /\ e.itemID \notin DOMAIN req[r].cartState

\* The history entries of the command a request's actionHandler submitted.
ActionEntries(r) ==
    {e \in UNION {{workflows[sessionId][n].applied[k] :
                      k \in 1..Len(workflows[sessionId][n].applied)} :
                  n \in RunsOf(sessionId)} : e.seq = req[r].first}

\* The caller of the applied command e gets e's post-mutation snapshot: the
\* update completes with it, and it is what the call returns.
ReturnsSnapshot(r, e) ==
    /\ (req[r].pc = "waitAction" /\ req[r].seq = e.seq) =>
          result[r] = [state |-> "ok", value |-> e.after]
    /\ req[r].pc # "waitAction" => req[r].gotSeq >= e.seq
    /\ req[r].gotSeq = e.seq => req[r].cartState = e.after

\* C8: an add(x) that an Active actor applies increases the quantity of x by
\* exactly 1 (to 1 if x was absent), leaves every other item as it was, and
\* the caller gets the post-mutation snapshot.  An add fails only if its
\* actor was CheckedOut before the add reached the head of the queue.
C8_Add ==
    \A r \in Requests :
        (req[r].actionType = "add" /\ req[r].first # 0) =>
            LET x == req[r].itemID
            IN  /\ \A e \in ActionEntries(r) :
                      /\ x \in DOMAIN e.after
                      /\ e.after[x] = IF x \in DOMAIN e.before THEN e.before[x] + 1 ELSE 1
                      /\ DOMAIN e.after = DOMAIN e.before \cup {x}
                      /\ \A y \in DOMAIN e.before \ {x} : e.after[y] = e.before[y]
                      /\ ReturnsSnapshot(r, e)
                /\ (req[r].seq = req[r].first /\ result[r].state = "rejected") =>
                      /\ CheckedOut(sessionId, req[r].firstRun)
                      /\ ActionEntries(r) = {}

\* add(x) on a cart holding x and another item has returned: x went from 1
\* to 2 and the other item is still there.
C8_Witness ==
    \E r \in Requests : \E e \in ActionEntries(r) :
        /\ req[r].actionType = "add"
        /\ req[r].gotSeq = e.seq
        /\ Cardinality(DOMAIN e.before) = 2
        /\ e.before[req[r].itemID] = 1
        /\ req[r].cartState[req[r].itemID] = 2

\* C9: a remove(x) that an Active actor applies to a cart containing x
\* decreases the quantity of x by exactly 1, deletes the key when that
\* leaves 0, leaves every other item as it was, and the caller gets the
\* post-mutation snapshot.
C9_RemovePresent ==
    \A r \in Requests :
        (req[r].actionType = "remove" /\ req[r].first # 0) =>
            LET x == req[r].itemID
            IN  \A e \in ActionEntries(r) :
                    x \in DOMAIN e.before =>
                        /\ IF e.before[x] = 1
                           THEN DOMAIN e.after = DOMAIN e.before \ {x}
                           ELSE /\ DOMAIN e.after = DOMAIN e.before
                                /\ e.after[x] = e.before[x] - 1
                        /\ \A y \in DOMAIN e.before \ {x} : e.after[y] = e.before[y]
                        /\ ReturnsSnapshot(r, e)

\* remove(x) on a cart holding two units of x has returned a snapshot with
\* one unit.
C9_Witness ==
    \E r \in Requests : \E e \in ActionEntries(r) :
        /\ req[r].actionType = "remove"
        /\ req[r].itemID \in DOMAIN e.before
        /\ e.before[req[r].itemID] = 2
        /\ req[r].gotSeq = e.seq
        /\ req[r].cartState = (req[r].itemID :> 1)

\* C10: a remove(x) that an Active actor applies to a cart without x is a
\* no-op and not an error: the Cart State stays as it was, no entry for x
\* appears, and the caller gets a snapshot equal to the Cart State before
\* the command.
C10_RemoveAbsent ==
    \A r \in Requests :
        (req[r].actionType = "remove" /\ req[r].first # 0) =>
            LET x == req[r].itemID
            IN  \A e \in ActionEntries(r) :
                    x \notin DOMAIN e.before =>
                        /\ e.after = e.before
                        /\ x \notin DOMAIN e.after
                        /\ ReturnsSnapshot(r, e)
                        /\ req[r].gotSeq = e.seq =>
                              /\ req[r].cartState = e.before
                              /\ x \notin DOMAIN req[r].cartState

\* remove(x) has returned on a cart that holds another item only, and
\* remove(x) has returned the empty cart on an empty cart.
C10_Witness ==
    /\ \E r \in Requests : \E e \in ActionEntries(r) :
          /\ req[r].actionType = "remove"
          /\ req[r].gotSeq = e.seq
          /\ e.before # EmptyMap
          /\ req[r].itemID \notin DOMAIN e.before
          /\ req[r].cartState = e.before
    /\ \E r \in Requests : \E e \in ActionEntries(r) :
          /\ req[r].actionType = "remove"
          /\ e.before = EmptyMap
          /\ req[r].pc = "done"

\* Quantity of x in a cart (0: x is absent).
Qty(m, x) == IF x \in DOMAIN m THEN m[x] ELSE 0

\* C11: add(x) immediately followed by remove(x) brings the quantity of x
\* back to what it was before the pair, x being absent again if it was
\* absent: for every Cart State an Active actor is in and every item x, and
\* for every add(x), remove(x) an actor has applied back to back, where the
\* caller of the remove also gets a snapshot in which x is as before the pair.
C11_AddThenRemove ==
    /\ \A id \in SessionIds : \A n \in RunsOf(id) : \A x \in itemCosts :
          workflows[id][n].status = "Running" =>
              LET s == workflows[id][n].items
                  t == ApplyUpdate(ApplyUpdate(s, "add", x), "remove", x)
              IN  /\ (x \in DOMAIN t) = (x \in DOMAIN s)
                  /\ Qty(t, x) = Qty(s, x)
    /\ \A id \in SessionIds : \A n \in RunsOf(id) :
          LET log == workflows[id][n].applied
          IN  \A k \in 1..(Len(log) - 1) :
                  (/\ log[k].name = "add"
                   /\ log[k + 1].name = "remove"
                   /\ log[k + 1].itemID = log[k].itemID) =>
                      LET x == log[k].itemID
                          c == log[k + 1].req
                      IN  /\ (x \in DOMAIN log[k + 1].after) = (x \in DOMAIN log[k].before)
                          /\ Qty(log[k + 1].after, x) = Qty(log[k].before, x)
                          /\ (c \in Requests /\ req[c].gotSeq = log[k + 1].seq) =>
                                /\ (x \in DOMAIN req[c].cartState) = (x \in DOMAIN log[k].before)
                                /\ Qty(req[c].cartState, x) = Qty(log[k].before, x)

\* An actor has applied add(x) and then remove(x) back to back on a cart
\* without x, and the caller of the remove has its snapshot.
C11_Witness ==
    \E n \in RunsOf(sessionId) :
          \E k \in 1..(Len(workflows[sessionId][n].applied) - 1) :
              LET log == workflows[sessionId][n].applied
              IN  /\ log[k].name = "add"
                  /\ log[k + 1].name = "remove"
                  /\ log[k + 1].itemID = log[k].itemID
                  /\ log[k].itemID \notin DOMAIN log[k].before
                  /\ req[log[k + 1].req].gotSeq = log[k + 1].seq

\* The request's last submission was the first command ever submitted for
\* the session identifier, and it was a list.
FirstContactList(r) ==
    /\ req[r].seq = 1
    /\ req[r].path = "/" \/ req[r].actionType = "list"

\* C12: a list that an actor applies leaves the Cart State as it was and
\* completes with that Cart State as the snapshot, which is what its caller
\* gets.  A list that is the first command for a session identifier creates
\* the actor, Active and with an empty cart, is the first command that actor
\* applies, and returns the empty snapshot.
C12_List ==
    /\ \A id \in SessionIds : \A n \in RunsOf(id) :
          \A k \in 1..Len(workflows[id][n].applied) :
              LET e == workflows[id][n].applied[k]
              IN  e.name = "list" =>
                      /\ e.after = e.before
                      /\ k = Len(workflows[id][n].applied) => workflows[id][n].items = e.before
                      /\ (id = sessionId /\ e.req \in Requests) =>
                            /\ (req[e.req].seq = e.seq /\ req[e.req].pc \in {"waitAction", "waitList"}) =>
                                  result[e.req] = [state |-> "ok", value |-> e.before]
                            /\ req[e.req].gotSeq = e.seq => req[e.req].cartState = e.before
    /\ \A r \in Requests :
          FirstContactList(r) =>
              /\ req[r].run = 1
              /\ Len(workflows[sessionId]) >= 1
              /\ FirstTicket(sessionId, 1) = 1
              /\ IF workflows[sessionId][1].applied = <<>>
                 THEN /\ workflows[sessionId][1].status = "Running"
                      /\ workflows[sessionId][1].items = EmptyMap
                      /\ workflows[sessionId][1].queue[1].name = "list"
                      /\ req[r].gotSeq = 0
                 ELSE /\ workflows[sessionId][1].applied[1].name = "list"
                      /\ workflows[sessionId][1].applied[1].before = EmptyMap
                      /\ workflows[sessionId][1].applied[1].after = EmptyMap
              /\ req[r].pc = "done" => req[r].gotSeq = 1 /\ req[r].cartState = EmptyMap

\* The first request listed a session never seen before and got the empty
\* snapshot from the actor this created; a later list has returned the
\* non-empty cart of the same, still Active, actor.
C12_Witness ==
    \E r, q \in Requests :
        /\ FirstContactList(r)
        /\ req[r].pc = "done"
        /\ req[r].cartState = EmptyMap
        /\ workflows[sessionId][1].status = "Running"
        /\ req[q].pc = "done"
        /\ req[q].run = 1
        /\ req[q].gotSeq > req[q].first
        /\ req[q].cartState # EmptyMap
        /\ req[q].cartState = workflows[sessionId][1].items

\* One step of one actor, for C13.
C13_ActorStep(old, new) ==
    /\ old.status = "Completed" => new = old
    /\ new.status # old.status =>
          /\ old.status = "Running"
          /\ new.status = "Completed"
          /\ Len(new.applied) = Len(old.applied) + 1
          /\ new.applied[Len(new.applied)].name = "checkout"
          /\ new.items = old.items
    /\ (Len(new.applied) > Len(old.applied) /\ new.applied[Len(new.applied)].name = "checkout") =>
          new.status = "Completed"

\* C13: every actor starts Active; its only change of lifecycle state is
\* Active to CheckedOut, which happens in the step that applies a checkout
\* command and in no other; a CheckedOut actor never changes again, neither
\* its lifecycle state nor its Cart State nor its history.
C13_Lifecycle ==
    [][\A id \in SessionIds :
          /\ Len(workflows'[id]) >= Len(workflows[id])
          /\ \A n \in 1..Len(workflows[id]) :
                C13_ActorStep(workflows[id][n], workflows'[id][n])
          /\ \A n \in (Len(workflows[id]) + 1)..Len(workflows'[id]) :
                /\ workflows'[id][n].status = "Running"
                /\ workflows'[id][n].applied = <<>>]_vars

\* The first actor of the session is CheckedOut with a non-empty cart while
\* the session's second actor has applied an add to a cart of its own.
C13_Witness ==
    /\ Len(workflows[sessionId]) = 2
    /\ CheckedOut(sessionId, 1)
    /\ workflows[sessionId][1].items # EmptyMap
    /\ LastApplied(sessionId, 1).name = "checkout"
    /\ workflows[sessionId][2].status = "Running"
    /\ \E k \in 1..Len(workflows[sessionId][2].applied) :
          workflows[sessionId][2].applied[k].name = "add"

\* The cart workflow's worker keeps taking commands off the queue of a
\* running actor: neither kind of actor step is postponed forever.  The
\* worker is a process of its own and does not stop when the UI exits.
FairSpec ==
    /\ Spec
    /\ \A id \in SessionIds : WF_vars(ActorUpdate(id)) /\ WF_vars(ActorCheckout(id))

\* Request c's checkout has been acknowledged: SignalWorkflow returned nil.
CheckoutAcknowledged(c) == req[c].actionType = "checkout" /\ req[c].first # 0

\* C14: once a checkout has been acknowledged for the session, the actor it
\* was submitted to eventually reaches CheckedOut, given that the actor is
\* scheduled fairly.  An acknowledgement is never taken back, so this is: from
\* any moment on, a moment comes at which every checkout acknowledged so far
\* has been applied.
C14_CheckoutEventuallyApplied ==
    []<>(\A c \in Requests :
            CheckoutAcknowledged(c) => CheckedOut(sessionId, req[c].firstRun))

\* A checkout was acknowledged behind a command still queued, and the actor
\* has since applied both and is CheckedOut.
C14_Witness ==
    \E c \in Requests :
        /\ CheckoutAcknowledged(c)
        /\ CheckedOut(sessionId, req[c].firstRun)
        /\ LastApplied(sessionId, req[c].firstRun).seq = req[c].first
        /\ Len(workflows[sessionId][req[c].firstRun].applied) >= 2
        /\ req[c].first = 2
        /\ received = 2
        /\ req[1].pc \in {"waitAction", "waitList"}

\* C15: the checkout call does not wait for the actor.  A checkout request
\* is never blocked on its checkout: when SignalWorkflow has returned the
\* handler holds no snapshot and no result, and goes on to listHandler.  What
\* the request waits for later, and any snapshot it ends with, is that of the
\* list it submits after the checkout call has returned; the checkout itself
\* never completes with a result for its caller.
C15_CheckoutReturnsOnAck ==
    \A c \in Requests :
        req[c].actionType = "checkout" =>
            /\ req[c].pc # "waitAction"
            /\ req[c].pc \in {"list", "waitList", "done"} => req[c].first # 0
            /\ req[c].pc = "list" =>
                  /\ req[c].seq = req[c].first
                  /\ req[c].gotSeq = 0
                  /\ req[c].cartState = EmptyMap
                  /\ result[c] = NoResult
            /\ req[c].pc \in {"waitList", "done"} => req[c].seq > req[c].first
            /\ req[c].first # 0 =>
                  /\ req[c].gotSeq # req[c].first
                  /\ result[c].state # "none" => req[c].seq > req[c].first

\* The checkout call has returned while the checkout is still queued,
\* unapplied, behind another command the actor has not applied either.
C15_Witness ==
    \E c \in Requests :
        /\ req[c].actionType = "checkout"
        /\ req[c].pc = "list"
        /\ workflows[sessionId][req[c].firstRun].status = "Running"
        /\ workflows[sessionId][req[c].firstRun].applied = <<>>
        /\ Len(workflows[sessionId][req[c].firstRun].queue) = 2
        /\ workflows[sessionId][req[c].firstRun].queue[2].seq = req[c].first
        /\ workflows[sessionId][req[c].firstRun].queue[2].kind = "signal"

\* One step, for C16.
C16_Step ==
    /\ \A id1, id2 \in SessionIds :
          id1 # id2 => workflows'[id1] = workflows[id1] \/ workflows'[id2] = workflows[id2]
    /\ (\/ req' # req
        \/ nextSeq'[sessionId] # nextSeq[sessionId]
        \/ workflows'[sessionId] # workflows[sessionId]) =>
          \A id \in SessionIds \ {sessionId} :
              /\ workflows'[id] = workflows[id]
              /\ nextSeq'[id] = nextSeq[id]
    /\ \A id \in SessionIds \ {sessionId} :
          workflows'[id] # workflows[id] =>
              /\ workflows'[sessionId] = workflows[sessionId]
              /\ nextSeq' = nextSeq
              /\ req' = req

\* C16: sessions do not touch each other.  No step changes the actors of two
\* session identifiers; a step in which a request of this process submits a
\* command, or in which this session's actor applies one, leaves the items,
\* lifecycle state, queue and history of every other session as they were;
\* and a step of another session's actor leaves this session's as they were.
C16_SessionIsolation == [][C16_Step]_vars

\* This session's actor has applied add("apple") twice while the other
\* session's actor, with one apple in its cart, is exactly as it was when the
\* process started.
C16_Witness ==
    /\ Len(workflows[sessionId]) = 1
    /\ workflows[sessionId][1].items = ("apple" :> 2)
    /\ \E id \in SessionIds \ {sessionId} :
          /\ workflows[id] = OtherSession
          /\ workflows[id][1].items = ("apple" :> 1)

\* The errors a command can fail with: the actor was CheckedOut before the
\* command reached it (SessionClosed), or no actor could be found or started
\* for the identifier (DispatchFailure).
CommandFailures == {"SessionClosed", "NotFound", "AlreadyStarted"}

\* C17: when a command fails with SessionClosed or DispatchFailure, the error
\* goes back to the caller of that command and the process keeps serving:
\* it is still able to accept and complete later commands.
C17_ErrorsReturned ==
    exitCause \in CommandFailures => alive

\* C18: create-or-attach comes first for every command, checkout included:
\* every checkout request the process has handled was submitted to an actor
\* of the session, one being created when there was none, and none failed
\* because the actor was absent.
C18_CheckoutCreatesActor ==
    /\ exitCause # "NotFound"
    /\ \A c \in Requests :
          req[c].actionType = "checkout" =>
              /\ req[c].first # 0
              /\ req[c].firstRun \in RunsOf(sessionId)

\* The command an action request asks for, and the list that follows it.
ActionCommand(r) ==
    [id |-> sessionId, seq |-> req[r].first, name |-> req[r].actionType,
     itemID |-> req[r].itemID]
FollowingList(r) ==
    [id |-> sessionId, seq |-> req[r].seq, name |-> "list", itemID |-> ""]

\* C19: an action request of type add, remove or checkout submits the
\* command it names, with the item it names, and then, once that call has
\* returned, one list, both for the process's session identifier: while it
\* waits for its command it has submitted that command only, and when it
\* responds it has submitted exactly the command and the list, in that
\* order, and shows the list's snapshot.  An action request of type list
\* submits exactly one list.
C19_CommandThenList ==
    \A r \in Requests :
        req[r].path = "/action" =>
            IF req[r].actionType = "list"
            THEN req[r].pc \in {"waitAction", "done"} =>
                     /\ req[r].sent = <<[ActionCommand(r) EXCEPT !.itemID = ""]>>
                     /\ req[r].seq = req[r].first
                     /\ req[r].pc = "done" => req[r].gotSeq = req[r].seq
            ELSE /\ req[r].pc \in {"waitAction", "list"} =>
                       /\ req[r].sent = <<ActionCommand(r)>>
                       /\ req[r].seq = req[r].first
                 /\ req[r].pc \in {"waitList", "done"} =>
                       /\ req[r].sent = <<ActionCommand(r), FollowingList(r)>>
                       /\ req[r].first < req[r].seq
                 /\ req[r].pc = "done" => req[r].gotSeq = req[r].seq

\* Three action requests have responded, one after the other: an add, a
\* checkout and a list.
C19_Witness ==
    /\ \A r \in Requests : req[r].pc = "done" /\ req[r].path = "/action"
    /\ req[1].actionType = "add"
    /\ req[2].actionType = "checkout"
    /\ req[3].actionType = "list"
    /\ Len(req[1].sent) = 2
    /\ Len(req[2].sent) = 2
    /\ Len(req[3].sent) = 1

\* The calls the requests of this process have made so far.
AllSent == {<<r, i>> \in Requests \X (1..2) : i <= Len(req[r].sent)}

====
